---- MODULE Spec2Model ----
(***************************************************************************)
(* Model of the tonks scheduler: the SchedulerBuilder's stage planner, the *)
(* construction of a Scheduler (Scheduler::new) and the dispatch engine    *)
(* (Scheduler::execute and the tasks it spawns on the worker pool).        *)
(*                                                                         *)
(* SystemId and StageId are 0-based in the source and index vectors; here  *)
(* they are the 1-based positions of the corresponding sequences.          *)
(* ResourceId keeps its 0-based value.                                     *)
(***************************************************************************)
EXTENDS Integers, Sequences, FiniteSets, TLC

(* ------------------------------ bounds --------------------------------- *)

\* longest registration sequence handed to the builder
MaxSystems == 3
\* most stages of a plan handed directly to Scheduler::new
MaxStages == 2
\* number of execute() calls on one scheduler
MaxExecutes == 2

(* -------------------------- program constants -------------------------- *)

\* reads_held: Vec<u8>
U8Mod == 256
\* crossbeam::bounded(8)
ChannelCap == 8

(* ----------------------- resources and systems ------------------------- *)

\* resource_id_for::<Resource1>() and resource_id_for::<Resource2>()
ResourceIds == {0, 1}

Read(r) == [mode |-> "read", res |-> r]
Write(r) == [mode |-> "write", res |-> r]

\* The handle tuple (System::SystemData) of each kind of system used as input.
SystemData(kind) ==
    CASE kind = "sum"  -> <<Read(0), Write(1)>>
      [] kind = "copy" -> <<Read(0), Write(1)>>
      [] kind = "rd"   -> <<Read(0)>>
      [] kind = "rd1"  -> <<Read(1)>>
      [] kind = "inc"  -> <<Write(0)>>
      [] kind = "dbl"  -> <<Write(0)>>
      [] kind = "set9" -> <<Write(0)>>
      [] kind = "rw"   -> <<Read(0), Write(0)>>
      [] kind = "wide" -> [i \in 1..U8Mod |-> Read(0)]
      [] OTHER         -> <<>>

IsRead(h) == h.mode = "read"
IsWrite(h) == h.mode = "write"

\* SystemData::reads() of a tuple: the elements' reads, appended in order
\* (Read<T> gives its resource, Write<T> nothing)
TupleReads(data) ==
    LET rs == SelectSeq(data, IsRead) IN [i \in 1..Len(rs) |-> rs[i].res]

\* SystemData::writes() of a tuple: the elements' writes, appended in order
\* (Write<T> gives its resource, Read<T> nothing)
TupleWrites(data) ==
    LET ws == SelectSeq(data, IsWrite) IN [i \in 1..Len(ws) |-> ws[i].res]

\* CachedSystem::new: resource_reads / resource_writes cached from the tuple
resource_reads(kind) == TupleReads(SystemData(kind))
resource_writes(kind) == TupleWrites(SystemData(kind))

\* a body that clears the store where the system has none
RunClears(kind, snap, cur) ==
    CASE kind = "sum"  -> [cur EXCEPT ![1] = snap[1] + snap[0]]
      [] kind = "copy" -> [cur EXCEPT ![1] = snap[0]]
      [] kind = "inc"  -> [cur EXCEPT ![0] = snap[0] + 1]
      [] kind = "dbl"  -> [cur EXCEPT ![0] = snap[0] * 2]
      [] kind = "set9" -> [cur EXCEPT ![0] = 9]
      [] OTHER         -> [r \in DOMAIN cur |-> 0]

\* System::run of each kind, on the values it loaded (snap) and the store
\* it writes through its Write handles (cur). The resources are u32; the
\* values MaxExecutes executions produce stay far below 2^32.
Run(kind, snap, cur) ==
    CASE kind = "sum"  -> [cur EXCEPT ![1] = snap[1] + snap[0]]
      [] kind = "copy" -> [cur EXCEPT ![1] = snap[0]]
      [] kind = "inc"  -> [cur EXCEPT ![0] = snap[0] + 1]
      [] kind = "dbl"  -> [cur EXCEPT ![0] = snap[0] * 2]
      [] kind = "set9" -> [cur EXCEPT ![0] = 9]
      [] OTHER         -> cur

Range(s) == {s[i] : i \in 1..Len(s)}

RECURSIVE Concat(_)
Concat(ss) == IF ss = <<>> THEN <<>> ELSE Head(ss) \o Concat(Tail(ss))

RECURSIVE SeqsUpTo(_, _)
\* all sequences over S of length at most n
SeqsUpTo(S, n) ==
    IF n = 0 THEN {<<>>}
    ELSE LET shorter == SeqsUpTo(S, n - 1)
         IN  shorter \cup {Append(q, x) : q \in shorter, x \in S}

(* --------------------------- stage planner ----------------------------- *)

\* conflict of two systems: a write of one aliases any access of the other
Conflict(k1, k2) ==
    \/ Range(resource_writes(k1)) \cap
         (Range(resource_reads(k2)) \cup Range(resource_writes(k2))) # {}
    \/ Range(resource_writes(k2)) \cap
         (Range(resource_reads(k1)) \cup Range(resource_writes(k1))) # {}

\* aggregate read / write sets of a builder stage (a sequence of kinds)
AggReads(stage) == UNION {Range(resource_reads(stage[i])) : i \in 1..Len(stage)}
\* a stage whose aggregate write set is never filled
AggWritesNone(stage) == {}

AggWrites(stage) == UNION {Range(resource_writes(stage[i])) : i \in 1..Len(stage)}

\* compatibility that misses a write of the system on a write of the stage
CompatibleNoWriteWrite(kind, stage) ==
    /\ Range(resource_writes(kind)) \cap AggReads(stage) = {}
    /\ Range(resource_reads(kind)) \cap AggWrites(stage) = {}

\* compatibility of a system with a stage's aggregates R, W
Compatible(kind, stage) ==
    /\ Range(resource_writes(kind)) \cap (AggReads(stage) \cup AggWrites(stage)) = {}
    /\ Range(resource_reads(kind)) \cap AggWrites(stage) = {}

\* every system opens a stage of its own
PlaceSystemNewStage(kstages, kind) == Len(kstages) + 1

\* greedy earliest fit: the smallest compatible k, or k = |stages|
PlaceSystem(kstages, kind) ==
    LET fits == {k \in 1..Len(kstages) : Compatible(kind, kstages[k])}
    IN  IF fits = {} THEN Len(kstages) + 1
        ELSE CHOOSE k \in fits : \A j \in fits : k <= j

RECURSIVE PlanFrom(_, _, _)
\* the planner's loop over the systems in registration order, from system n
\* on; a stage is the sequence of the registration indices placed in it
PlanFrom(reg, n, istages) ==
    IF n > Len(reg) THEN istages
    ELSE LET kstages == [k \in 1..Len(istages) |->
                            [i \in 1..Len(istages[k]) |-> reg[istages[k][i]]]]
             k == PlaceSystem(kstages, reg[n])
         IN  PlanFrom(reg, n + 1,
                      IF k > Len(istages) THEN Append(istages, <<n>>)
                      ELSE [istages EXCEPT ![k] = Append(@, n)])

\* the stage planner run by SchedulerBuilder::build
Plan(reg) == PlanFrom(reg, 1, <<>>)

\* the stage (1-based) the plan puts registration index n in
StageOf(istages, n) ==
    CHOOSE k \in 1..Len(istages) : n \in Range(istages[k])

(* --------------------------- Scheduler::new ---------------------------- *)

\* number of systems in the stages before stage i: the value of `counter`
\* when the loop reaches stage i
CounterAt(kstages, i) == Len(Concat(SubSeq(kstages, 1, i - 1)))

\* `systems`: the systems collected into one vector
NewSystems(kstages) == Concat(kstages)

\* `stage_systems`: the SystemIds pushed for each stage
NewStageSystems(kstages) ==
    [i \in 1..Len(kstages) |->
        [j \in 1..Len(kstages[i]) |-> CounterAt(kstages, i) + j]]

\* the deps of each system taken at its index within its stage instead of
\* at `counter`
NewSystemDepsStageLocal(kstages, deps) ==
    [c \in 1..Len(Concat(kstages)) |->
        LET i == CHOOSE k \in 1..Len(kstages) :
                     CounterAt(kstages, k) < c /\ c <= CounterAt(kstages, k) + Len(kstages[k])
        IN  deps[c - CounterAt(kstages, i)]]

\* `system_reads` / `system_writes`: deps[counter] of each system
NewSystemDeps(kstages, deps) ==
    [c \in 1..Len(Concat(kstages)) |-> deps[c]]

\* `stage_reads` / `stage_writes`: the stage's systems' deps, extended in order
NewStageDeps(kstages, deps) ==
    [i \in 1..Len(kstages) |->
        Concat([j \in 1..Len(kstages[i]) |-> deps[CounterAt(kstages, i) + j]])]

\* a task queue that misses the last stage
create_task_queue_short(stage_systems) == [id \in 1..(Len(stage_systems) - 1) |-> id]

\* a task queue with the last stage first
create_task_queue_reversed(stage_systems) ==
    [id \in 1..Len(stage_systems) |-> Len(stage_systems) + 1 - id]

\* Scheduler::create_task_queue: one Task::Stage(StageId(id)) per stage
create_task_queue(stage_systems) == [id \in 1..Len(stage_systems) |-> id]

(* ----------------------- the borrow ledger ----------------------------- *)

\* number of entries of the list that name resource r
Occurrences(list, r) == Cardinality({i \in 1..Len(list) : list[i] = r})

\* for read in reads { reads_held[read.0] += 1; }: each entry of the list
\* adds one to its u8 counter, which wraps
IncrementReads(reads, held) ==
    [r \in DOMAIN held |-> (held[r] + Occurrences(reads, r)) % U8Mod]

\* for read in reads { self.reads_held[read.0] -= 1; }: each entry of the
\* list takes one from its u8 counter, which wraps
DecrementReads(reads, held) ==
    [r \in DOMAIN held |-> (held[r] - Occurrences(reads, r)) % U8Mod]

\* the check without its second loop: writes pass over held reads
NoConflictFirstLoop(reads, writes, held_reads, held_writes) ==
    \A i \in 1..Len(reads \o writes) : (reads \o writes)[i] \notin held_writes

\* the two checking loops of try_obtain_resources: a conflict is reported
\* when a read or write is write-held, or a write is read-held
NoConflict(reads, writes, held_reads, held_writes) ==
    /\ \A i \in 1..Len(reads \o writes) : (reads \o writes)[i] \notin held_writes
    /\ \A i \in 1..Len(writes) : held_reads[writes[i]] = 0

\* the ledger updated before the checks: an Err keeps what it took
try_obtain_then_check(reads, writes, held_reads, held_writes) ==
    [ok |-> NoConflict(reads, writes, held_reads, held_writes),
     reads_held |-> IncrementReads(reads, held_reads),
     writes_held |-> held_writes \cup Range(writes)]

\* try_obtain_resources: Err leaves the ledger alone, Ok updates it
try_obtain_resources(reads, writes, held_reads, held_writes) ==
    IF NoConflict(reads, writes, held_reads, held_writes)
    THEN [ok |-> TRUE,
          reads_held |-> IncrementReads(reads, held_reads),
          writes_held |-> held_writes \cup Range(writes)]
    ELSE [ok |-> FALSE, reads_held |-> held_reads, writes_held |-> held_writes]

\* a release that leaves the stage's writes in writes_held
release_reads_only(reads, writes, held_reads, held_writes) ==
    [reads_held |-> DecrementReads(reads, held_reads),
     writes_held |-> held_writes]

\* Scheduler::release_resources_for_stage
release_resources_for_stage(reads, writes, held_reads, held_writes) ==
    [reads_held |-> DecrementReads(reads, held_reads),
     writes_held |-> held_writes \ Range(writes)]

(* ------------------------------ state ---------------------------------- *)

VARIABLES
    registered,     \* SchedulerBuilder: the systems registered so far, in order
    plan,           \* the planner's stages (registration indices), once built
    phase,          \* "building" until a Scheduler exists, then "built"
    rebuilt,        \* the Scheduler comes from a second run of the planner
    resources,      \* Scheduler.resources: the value of each resource
    resources0,     \* the store as it was handed to the scheduler
    systems,        \* Scheduler.systems, by SystemId
    stages,         \* Scheduler.stages: the SystemIds of each stage
    system_reads, system_writes, stage_reads, stage_writes,
    starting_queue, task_queue,
    writes_held, reads_held,
    runnning_systems_count, running_systems,
    channel,        \* the bounded channel of TaskMessage::StageComplete(id)
    pc,             \* where the thread calling execute() is
    spawned,        \* per stage: closures given to rayon::spawn that have not sent
    sys_state,      \* per system: "idle", "pending", "running" or "done"
    loaded,         \* per running system: the values its handles read
    executes,       \* number of execute() calls made
    calls,          \* per system: number of execute_raw calls made
    sent,           \* per stage: StageComplete messages sent
    processed,      \* per stage: StageComplete messages wait_for_completion handled
    completions,    \* sum of the numbers wait_for_completion returned
    data,           \* per system: CachedSystem.data, "None" or "Some"
    loads,          \* per system: number of load_from_resources calls
    steps           \* per system: what its latest execute_raw did, in order

vars == <<registered, plan, phase, rebuilt, resources, resources0, systems, stages,
          system_reads, system_writes, stage_reads, stage_writes,
          starting_queue, task_queue, writes_held, reads_held,
          runnning_systems_count, running_systems, channel, pc, spawned,
          sys_state, loaded, executes, calls, sent, processed, completions,
          data, loads, steps>>

plan_vars == <<systems, stages, system_reads, system_writes, stage_reads,
               stage_writes, starting_queue>>
builder_vars == <<registered, plan, phase, rebuilt, resources0>>
ledger_vars == <<writes_held, reads_held>>
count_vars == <<sent, processed, completions>>
cache_vars == <<data, loads, steps>>

(* ------------------------------ inputs --------------------------------- *)

\* kinds of systems registered with the builder in every order
RegKinds == {"rd", "inc", "sum"}

ZeroStore == [r \in ResourceIds |-> 0]
\* A=10, B=5
SumStore == [r \in ResourceIds |-> IF r = 0 THEN 10 ELSE IF r = 1 THEN 5 ELSE 0]
\* P=3, Q=0
CopyStore == [r \in ResourceIds |-> IF r = 0 THEN 3 ELSE 0]

\* eight systems that each take the previous value of one resource and
\* store the next (R += 1)
Chain == <<"inc", "inc", "inc", "inc", "inc", "inc", "inc", "inc">>

\* the literal scenarios: one system B += A; C += 1 followed by C *= 2;
\* Q = P followed by P = 9; the chain; readers of disjoint resources and a
\* system without resources; a system without resources after two writers;
\* a system with U8Mod read handles on one resource, then a writer of it
Scenarios ==
    {[reg |-> <<"sum">>, store |-> SumStore],
     [reg |-> <<"inc", "dbl">>, store |-> ZeroStore],
     [reg |-> <<"copy", "set9">>, store |-> CopyStore],
     [reg |-> Chain, store |-> ZeroStore],
     [reg |-> <<"rd", "rd1", "nop">>, store |-> SumStore],
     [reg |-> <<"inc", "dbl", "nop">>, store |-> ZeroStore],
     [reg |-> <<"wide", "inc">>, store |-> ZeroStore]}

IsPrefix(p, q) == Len(p) <= Len(q) /\ SubSeq(q, 1, Len(p)) = p

Registrable(reg) ==
    \/ Len(reg) <= MaxSystems /\ \A i \in 1..Len(reg) : reg[i] \in RegKinds
    \/ \E sc \in Scenarios : IsPrefix(reg, sc.reg)

\* the stores inserted before build
InitStores == {ZeroStore} \cup {sc.store : sc \in Scenarios}

Insertable(reg, store) ==
    store = ZeroStore \/ [reg |-> reg, store |-> store] \in Scenarios

\* stages handed directly to Scheduler::new
RawStages == {<<>>, <<"rd">>, <<"inc">>, <<"rw">>, <<"sum">>, <<"rd", "inc">>}

\* a stage whose read list holds U8Mod entries of one resource, then a writer
WidePlan == <<(<<"wide">>), (<<"inc">>)>>

\* two writers of one resource, then a reader of another resource
StallPlan == <<(<<"inc">>), (<<"inc">>), (<<"rd1">>)>>

RawPlans == SeqsUpTo(RawStages, MaxStages) \cup {WidePlan, StallPlan}

AllKinds == RegKinds \cup UNION {Range(sc.reg) : sc \in Scenarios}

(* ------------------------------ actions -------------------------------- *)

Init ==
    /\ registered = <<>>
    /\ plan = <<>>
    /\ phase = "building"
    /\ rebuilt = FALSE
    /\ resources = ZeroStore
    /\ resources0 = ZeroStore
    /\ systems = <<>>
    /\ stages = <<>>
    /\ system_reads = <<>>
    /\ system_writes = <<>>
    /\ stage_reads = <<>>
    /\ stage_writes = <<>>
    /\ starting_queue = <<>>
    /\ task_queue = <<>>
    /\ writes_held = {}
    /\ reads_held = [r \in ResourceIds |-> 0]
    /\ runnning_systems_count = 0
    /\ running_systems = {}
    /\ channel = <<>>
    /\ pc = "idle"
    /\ spawned = <<>>
    /\ sys_state = <<>>
    /\ loaded = <<>>
    /\ executes = 0
    /\ calls = <<>>
    /\ sent = <<>>
    /\ processed = <<>>
    /\ completions = 0
    /\ data = <<>>
    /\ loads = <<>>
    /\ steps = <<>>

\* SchedulerBuilder::with: register a system
With(kind) ==
    /\ phase = "building"
    /\ Registrable(Append(registered, kind))
    /\ registered' = Append(registered, kind)
    /\ UNCHANGED <<plan, phase, rebuilt, resources, resources0, plan_vars, task_queue,
                   ledger_vars, runnning_systems_count, running_systems,
                   channel, pc, spawned, sys_state, loaded, executes, calls, count_vars,
                   cache_vars>>

\* Scheduler::new(stages, read_deps, write_deps, resources), the deps being
\* those the systems report, indexed by SystemId
SchedulerNew(kstages, store) ==
    LET read_deps == [c \in 1..Len(Concat(kstages)) |-> resource_reads(Concat(kstages)[c])]
        write_deps == [c \in 1..Len(Concat(kstages)) |-> resource_writes(Concat(kstages)[c])]
    IN  /\ systems' = NewSystems(kstages)
        /\ stages' = NewStageSystems(kstages)
        /\ system_reads' = NewSystemDeps(kstages, read_deps)
        /\ system_writes' = NewSystemDeps(kstages, write_deps)
        /\ stage_reads' = NewStageDeps(kstages, read_deps)
        /\ stage_writes' = NewStageDeps(kstages, write_deps)
        /\ starting_queue' = create_task_queue(NewStageSystems(kstages))
        /\ task_queue' = <<>>
        /\ writes_held' = {}
        /\ reads_held' = [r \in ResourceIds |-> 0]
        /\ runnning_systems_count' = 0
        /\ running_systems' = {}
        /\ channel' = <<>>
        /\ resources' = store
        /\ resources0' = store
        /\ spawned' = [i \in 1..Len(kstages) |-> 0]
        /\ sys_state' = [c \in 1..Len(Concat(kstages)) |-> "idle"]
        /\ loaded' = [c \in 1..Len(Concat(kstages)) |-> <<>>]
        /\ calls' = [c \in 1..Len(Concat(kstages)) |-> 0]
        /\ sent' = [i \in 1..Len(kstages) |-> 0]
        /\ processed' = [i \in 1..Len(kstages) |-> 0]
        /\ completions' = 0
        /\ data' = [c \in 1..Len(Concat(kstages)) |-> "None"]
        /\ loads' = [c \in 1..Len(Concat(kstages)) |-> 0]
        /\ steps' = [c \in 1..Len(Concat(kstages)) |-> <<>>]

\* SchedulerBuilder::build(resources): plan the stages, make the Scheduler
Build(store) ==
    /\ phase = "building"
    /\ Insertable(registered, store)
    /\ LET istages == Plan(registered)
           kstages == [k \in 1..Len(istages) |->
                          [i \in 1..Len(istages[k]) |-> registered[istages[k][i]]]]
       IN  /\ plan' = istages
           /\ SchedulerNew(kstages, store)
    /\ phase' = "built"
    /\ UNCHANGED <<registered, rebuilt, pc, executes>>

\* a second build whose planner keeps the stages of its previous run
RebuildStale ==
    /\ phase = "built"
    /\ pc = "idle"
    /\ LET istages == PlanFrom(registered, 1, plan)
           kstages == [k \in 1..Len(istages) |->
                          [i \in 1..Len(istages[k]) |-> registered[istages[k][i]]]]
       IN  /\ plan' = istages
           /\ SchedulerNew(kstages, resources0)
    /\ rebuilt' = TRUE
    /\ executes' = 0
    /\ UNCHANGED <<registered, phase, pc>>

\* the same registration order given to a builder again and built again
\* on the same store, between two execute() calls: a new plan, a new
\* Scheduler
Rebuild ==
    /\ phase = "built"
    /\ pc = "idle"
    /\ LET istages == Plan(registered)
           kstages == [k \in 1..Len(istages) |->
                          [i \in 1..Len(istages[k]) |-> registered[istages[k][i]]]]
       IN  /\ plan' = istages
           /\ SchedulerNew(kstages, resources0)
    /\ rebuilt' = TRUE
    /\ executes' = 0
    /\ UNCHANGED <<registered, phase, pc>>

\* Scheduler::new called with stages assembled by the caller
NewRaw(kstages) ==
    /\ phase = "building"
    /\ registered = <<>>
    /\ SchedulerNew(kstages, ZeroStore)
    /\ phase' = "raw"
    /\ UNCHANGED <<registered, plan, rebuilt, pc, executes>>

\* Scheduler::execute, up to its first loop
ExecuteStart ==
    /\ phase # "building"
    /\ pc = "idle"
    /\ executes < MaxExecutes
    /\ task_queue = <<>>
    /\ task_queue' = starting_queue
    /\ pc' = "drain"
    /\ executes' = executes + 1
    /\ UNCHANGED <<builder_vars, resources, plan_vars, ledger_vars,
                   runnning_systems_count, running_systems, channel, spawned,
                   sys_state, loaded, calls, count_vars,
                   cache_vars>>

\* Scheduler::dispatch_task for Task::Stage(id): the bits set in
\* running_systems
dispatch_task(id, running) == running \cup Range(stages[id])

\* the number of systems dispatch_task returns for Task::Stage(id)
dispatched_systems(id) == Len(stages[id])

\* `while let Some(task) = self.task_queue.pop_front() { self.run_task(task) }`:
\* one iteration, up to the recv() of wait_for_completion on a conflict
RunTask ==
    /\ pc = "drain"
    /\ task_queue # <<>>
    /\ LET task == Head(task_queue)
           got == try_obtain_resources(stage_reads[task], stage_writes[task],
                                       reads_held, writes_held)
       IN  /\ reads_held' = got.reads_held
           /\ writes_held' = got.writes_held
           /\ IF got.ok
              THEN
                /\ task_queue' = Tail(task_queue)
                /\ running_systems' = dispatch_task(task, running_systems)
                /\ spawned' = [spawned EXCEPT ![task] = @ + 1]
                /\ sys_state' = [c \in 1..Len(sys_state) |->
                                    IF c \in Range(stages[task]) THEN "pending"
                                    ELSE sys_state[c]]
                /\ runnning_systems_count' =
                       runnning_systems_count + dispatched_systems(task)
                /\ pc' = "drain"
              ELSE
                /\ task_queue' = <<task>> \o Tail(task_queue)
                /\ pc' = "waitConflict"
                /\ UNCHANGED <<running_systems, spawned, sys_state,
                               runnning_systems_count>>
    /\ UNCHANGED <<builder_vars, resources, plan_vars, channel, loaded,
                   executes, calls, count_vars,
                   cache_vars>>

\* the queue is empty: the `while let` loop ends
DrainDone ==
    /\ pc = "drain"
    /\ task_queue = <<>>
    /\ pc' = "join"
    /\ UNCHANGED <<builder_vars, resources, plan_vars, task_queue, ledger_vars,
                   runnning_systems_count, running_systems, channel, spawned,
                   sys_state, loaded, executes, calls, count_vars,
                   cache_vars>>

\* `while self.runnning_systems_count > 0`: wait, or return from execute
JoinCheck ==
    /\ pc = "join"
    /\ pc' = IF runnning_systems_count > 0 THEN "waitJoin" ELSE "idle"
    /\ UNCHANGED <<builder_vars, resources, plan_vars, task_queue, ledger_vars,
                   runnning_systems_count, running_systems, channel, spawned,
                   sys_state, loaded, executes, calls, count_vars,
                   cache_vars>>

\* a completion that clears no bit of running_systems
complete_stage_keeps_bits(id, running) == running

\* the systems whose bits wait_for_completion leaves set for StageComplete(id)
complete_stage(id, running) == running \ Range(stages[id])

\* StageComplete(id) counted as one system, as SystemComplete is
completed_one(id) == 1

\* the number of systems wait_for_completion returns for StageComplete(id)
completed_systems(id) == Len(stages[id])

\* Scheduler::wait_for_completion from recv() on, and the subtraction of
\* its result by its caller
WaitForCompletion ==
    /\ pc \in {"waitConflict", "waitJoin"}
    /\ channel # <<>>
    /\ LET id == Head(channel)
           rel == release_resources_for_stage(stage_reads[id], stage_writes[id],
                                              reads_held, writes_held)
       IN  /\ reads_held' = rel.reads_held
           /\ writes_held' = rel.writes_held
           /\ running_systems' = complete_stage(id, running_systems)
           /\ runnning_systems_count' =
                  runnning_systems_count - completed_systems(id)
           /\ processed' = [processed EXCEPT ![id] = @ + 1]
           /\ completions' = completions + completed_systems(id)
    /\ channel' = Tail(channel)
    /\ pc' = "drain"
    /\ UNCHANGED <<builder_vars, resources, plan_vars, task_queue, spawned,
                   sys_state, loaded, executes, calls, sent,
                   cache_vars>>

\* a cache that is filled again on every call
insert_always(d) == [data |-> "Some", loaded |-> 1]

\* self.data.get_or_insert_with(|| S::SystemData::load_from_resources(..)):
\* the cache after the call, and the number of loads it made
get_or_insert_with(d) ==
    [data |-> "Some", loaded |-> IF d = "None" THEN 1 ELSE 0]

\* a worker starts sys.execute_raw for a system of a spawned stage: the
\* handle tuple is taken from the cache, prepared, and the body starts
SystemBegin(s) ==
    /\ sys_state[s] = "pending"
    /\ sys_state' = [sys_state EXCEPT ![s] = "running"]
    /\ LET got == get_or_insert_with(data[s])
       IN  /\ data' = [data EXCEPT ![s] = got.data]
           /\ loads' = [loads EXCEPT ![s] = @ + got.loaded]
           /\ steps' = [steps EXCEPT ![s] =
                           [k \in 1..got.loaded |-> "load"] \o <<"prepare">>]
    /\ loaded' = [loaded EXCEPT ![s] = resources]
    /\ calls' = [calls EXCEPT ![s] = @ + 1]
    /\ UNCHANGED <<builder_vars, resources, plan_vars, task_queue, ledger_vars,
                   runnning_systems_count, running_systems, channel, pc,
                   spawned, executes, count_vars>>

\* the system's body stores its results, then data.flush(), and
\* execute_raw returns
SystemEnd(s) ==
    /\ sys_state[s] = "running"
    /\ steps' = [steps EXCEPT ![s] = @ \o <<"run", "flush">>]
    /\ UNCHANGED <<data, loads>>
    /\ resources' = Run(systems[s], loaded[s], resources)
    /\ sys_state' = [sys_state EXCEPT ![s] = "done"]
    /\ loaded' = [loaded EXCEPT ![s] = <<>>]
    /\ UNCHANGED <<builder_vars, plan_vars, task_queue, ledger_vars,
                   runnning_systems_count, running_systems, channel, pc,
                   spawned, executes, calls, count_vars>>

\* the closure of dispatch_stage, after its par_iter().for_each returned:
\* sender.send(TaskMessage::StageComplete(id))
StageSend(id) ==
    /\ spawned[id] > 0
    /\ \A s \in Range(stages[id]) : sys_state[s] = "done"
    /\ Len(channel) < ChannelCap
    /\ channel' = Append(channel, id)
    /\ spawned' = [spawned EXCEPT ![id] = @ - 1]
    /\ sent' = [sent EXCEPT ![id] = @ + 1]
    /\ sys_state' = [c \in 1..Len(sys_state) |->
                        IF c \in Range(stages[id]) THEN "idle" ELSE sys_state[c]]
    /\ UNCHANGED <<builder_vars, resources, plan_vars, task_queue, ledger_vars,
                   runnning_systems_count, running_systems, pc, loaded,
                   executes, calls, processed, completions,
                   cache_vars>>

Engine == ExecuteStart \/ RunTask \/ DrainDone \/ JoinCheck \/ WaitForCompletion

Workers ==
    \/ \E s \in 1..Len(systems) : SystemBegin(s)
    \/ \E s \in 1..Len(systems) : SystemEnd(s)
    \/ \E id \in 1..Len(stages) : StageSend(id)

User ==
    \/ \E kind \in AllKinds : With(kind)
    \/ \E store \in InitStores : Build(store)
    \/ Rebuild
    \/ \E kstages \in RawPlans : NewRaw(kstages)

Next == User \/ Engine \/ Workers

Spec == Init /\ [][Next]_vars

\* the thread inside execute() runs, and the pool runs what was spawned
EngineSteps == RunTask \/ DrainDone \/ JoinCheck \/ WaitForCompletion

SpecFair == Spec /\ WF_vars(EngineSteps) /\ WF_vars(Workers)

(* ------------------------- a system that panics ------------------------ *)

\* sys.execute_raw panics instead of returning
SystemPanic(s) ==
    /\ sys_state[s] = "running"
    /\ sys_state' = [sys_state EXCEPT ![s] = "panicked"]
    /\ loaded' = [loaded EXCEPT ![s] = <<>>]
    /\ UNCHANGED <<builder_vars, resources, plan_vars, task_queue, ledger_vars,
                   runnning_systems_count, running_systems, channel, pc,
                   spawned, executes, calls, count_vars,
                   cache_vars>>

\* par_iter().for_each resumes the panic in the closure given to
\* rayon::spawn once no system of the stage is executing (systems not yet
\* started may be skipped)
Unwinding(id) ==
    /\ spawned[id] > 0
    /\ \E s \in Range(stages[id]) : sys_state[s] = "panicked"
    /\ \A s \in Range(stages[id]) : sys_state[s] # "running"

\* the closure unwinds before sender.send and the pool has a panic handler:
\* the task ends and no StageComplete(id) is ever sent
StageUnwind(id) ==
    /\ Unwinding(id)
    /\ spawned' = [spawned EXCEPT ![id] = @ - 1]
    /\ sys_state' = [c \in 1..Len(sys_state) |->
                        IF c \in Range(stages[id]) /\ sys_state[c] # "panicked"
                        THEN "idle" ELSE sys_state[c]]
    /\ UNCHANGED <<builder_vars, resources, plan_vars, task_queue, ledger_vars,
                   runnning_systems_count, running_systems, channel, pc,
                   loaded, executes, calls, count_vars,
                   cache_vars>>

\* the closure unwinds and the pool has no panic handler: rayon aborts the
\* process, every thread with it
ProcessAbort(id) ==
    /\ Unwinding(id)
    /\ pc' = "aborted"
    /\ spawned' = [i \in 1..Len(spawned) |-> 0]
    /\ sys_state' = [c \in 1..Len(sys_state) |->
                        IF sys_state[c] = "panicked" THEN "panicked" ELSE "idle"]
    /\ UNCHANGED <<builder_vars, resources, plan_vars, task_queue, ledger_vars,
                   runnning_systems_count, running_systems, channel,
                   loaded, executes, calls, count_vars,
                   cache_vars>>

Panics ==
    \/ \E s \in 1..Len(systems) : SystemPanic(s)
    \/ \E id \in 1..Len(stages) : StageUnwind(id)
    \/ \E id \in 1..Len(stages) : ProcessAbort(id)

NextPanic == Next \/ Panics

SpecPanic == Init /\ [][NextPanic]_vars

(* --------------------------- the properties ---------------------------- *)

Executing(s) == sys_state[s] = "running"

Accesses(s) == Range(system_reads[s]) \cup Range(system_writes[s])

\* stage-internal non-conflict, the contract of Scheduler::new
StageNonConflict ==
    \A id \in 1..Len(stages) : \A s1, s2 \in Range(stages[id]) :
        s1 # s2 => Range(system_writes[s1]) \cap Accesses(s2) = {}

\* execute() is not running: before the first call or after a return
Idle == phase # "building" /\ pc = "idle"

\* C1: in a plan whose stages satisfy stage-internal non-conflict, a
\* resource on the write list of an executing system is on no read or write
\* list of any other executing system (readers, or one writer, never both).
C1_ReadersOrOneWriter ==
    StageNonConflict =>
        \A s1, s2 \in 1..Len(systems) :
            (s1 # s2 /\ Executing(s1) /\ Executing(s2))
                => Range(system_writes[s1]) \cap Accesses(s2) = {}

\* C2: no resource is write-held while its shared count is positive (in a
\* scheduler whose stages keep the contract of Scheduler::new).
C2_LedgerDisjoint ==
    StageNonConflict =>
        \A r \in ResourceIds : ~(r \in writes_held /\ reads_held[r] > 0)

\* C3: whenever execute() is not running (before a call, after any number
\* of calls) the ledger is empty, the running count is 0, running_systems is
\* empty and the task queue is empty.
C3_LedgerEmptyBetweenExecutes ==
    Idle =>
        /\ writes_held = {}
        /\ \A r \in ResourceIds : reads_held[r] = 0
        /\ runnning_systems_count = 0
        /\ running_systems = {}
        /\ task_queue = <<>>

C3_Witness ==
    /\ Idle
    /\ executes >= 2
    /\ \E id \in 1..Len(stages) : stage_reads[id] # <<>>
    /\ \E id \in 1..Len(stages) : stage_writes[id] # <<>>

\* C4: when execute() has returned, no spawned task is still to send its
\* StageComplete and no completion message is unreceived (in a scheduler
\* whose stages keep the contract of Scheduler::new).
C4_ReturnsAfterAllCompletions ==
    (StageNonConflict /\ Idle) =>
        /\ \A id \in 1..Len(stages) : spawned[id] = 0
        /\ channel = <<>>

\* A=10, B=15
SumStoreAfter == [r \in ResourceIds |-> IF r = 0 THEN 10 ELSE IF r = 1 THEN 15 ELSE 0]

\* C5: each execute() invokes every system exactly once: between calls every
\* system has been invoked once per call, inside a call at most once for that
\* call; and the single system B += A turns A=10, B=5 into A=10, B=15.
C5_EverySystemOncePerExecute ==
    /\ \A s \in 1..Len(systems) :
          /\ Idle => calls[s] = executes
          /\ calls[s] \in {executes - 1, executes}
    /\ (/\ phase = "built" /\ registered = <<"sum">> /\ resources0 = SumStore
        /\ pc = "idle" /\ executes = 1)
           => resources = SumStoreAfter

C5_Witness ==
    /\ phase = "built" /\ registered = <<"sum">> /\ resources0 = SumStore
    /\ pc = "idle" /\ executes = 1 /\ calls = <<1>>
    /\ resources = SumStoreAfter

\* the aggregate read/write sets of two stages conflict
StagesConflict(i, j) ==
    \/ Range(stage_writes[i]) \cap (Range(stage_reads[j]) \cup Range(stage_writes[j])) # {}
    \/ Range(stage_writes[j]) \cap (Range(stage_reads[i]) \cup Range(stage_writes[i])) # {}

\* the engine has processed the StageComplete of stage i in this execute
Processed(i) ==
    /\ i \notin Range(task_queue)
    /\ spawned[i] = 0
    /\ i \notin Range(channel)

\* C6: for stages i < j whose aggregate sets conflict, a system of stage j
\* has begun executing only if the StageComplete of stage i was processed
\* (in a scheduler whose stages keep the contract of Scheduler::new).
C6_ConflictingStagesInOrder ==
    StageNonConflict =>
        \A i, j \in 1..Len(stages) :
            (i < j /\ StagesConflict(i, j)
               /\ \E s \in Range(stages[j]) : sys_state[s] \in {"running", "done"})
            => Processed(i)

\* C7: the planner puts two conflicting systems in stages ordered as the
\* systems were registered.
C7_ConflictsKeepRegistrationOrder ==
    phase = "built" =>
        \A i, j \in 1..Len(registered) :
            (i < j /\ Conflict(registered[i], registered[j]))
                => StageOf(plan, i) < StageOf(plan, j)

\* C8: no two distinct systems the planner put in one stage conflict: the
\* writes of one touch neither the reads nor the writes of the other.
C8_NoConflictInsideStage ==
    phase = "built" => StageNonConflict

C8_Witness ==
    /\ phase = "built"
    /\ \E id \in 1..Len(stages) :
          Len(stages[id]) >= 2 /\ stage_writes[id] # <<>> /\ stage_reads[id] # <<>>
    /\ Len(stages) >= 2

RECURSIVE RunInOrder(_, _, _)
\* the systems run one at a time in registration order, from system n on
RunInOrder(reg, n, store) ==
    IF n > Len(reg) THEN store
    ELSE RunInOrder(reg, n + 1, Run(reg[n], store, store))

RECURSIVE RunTimes(_, _, _)
RunTimes(reg, times, store) ==
    IF times = 0 THEN store
    ELSE RunTimes(reg, times - 1, RunInOrder(reg, 1, store))

\* C9: after each execute() of a planned scheduler the store equals the one
\* obtained by running the systems one at a time in registration order.
C9_EqualsSequentialRun ==
    (phase = "built" /\ pc = "idle")
        => resources = RunTimes(registered, executes, resources0)

\* the thread in execute() is blocked in recv() of wait_for_completion
Blocked == pc \in {"waitConflict", "waitJoin"} /\ channel = <<>>

\* C10: whenever the engine waits in wait_for_completion some spawned task
\* has not had its completion message received, and every execute() that
\* was started returns.
C10_NeverBlocksForever ==
    /\ [](pc \in {"waitConflict", "waitJoin"}
            => \E id \in 1..Len(stages) : spawned[id] > 0 \/ id \in Range(channel))
    /\ (pc # "idle" ~> pc = "idle")

C10_Witness ==
    /\ Blocked
    /\ pc = "waitConflict"
    /\ executes >= 2

\* C11: one execute() of a plan of N systems gives N system-equivalent
\* completions: every stage's StageComplete is sent once and processed once
\* per execute() (never sent before its execute, never processed before it is
\* sent), and the numbers wait_for_completion returned sum to N per execute().
C11_OneCompletionPerStage ==
    /\ \A id \in 1..Len(stages) :
          /\ processed[id] <= sent[id]
          /\ sent[id] <= executes
          /\ Idle => (sent[id] = executes /\ processed[id] = executes)
    /\ Idle => completions = executes * Len(systems)

\* the task of a stage with a panicked system has ended in a live process
PanicEnded ==
    /\ pc # "aborted"
    /\ \E id \in 1..Len(stages) :
          spawned[id] = 0 /\ \E s \in Range(stages[id]) : sys_state[s] = "panicked"

\* no spawned task is running and no completion message is unreceived
NothingInFlight ==
    /\ \A id \in 1..Len(stages) : spawned[id] = 0
    /\ channel = <<>>

\* C12: a panic of a system leaks no borrow: once the task of the panicking
\* system's stage has ended (and the process was not aborted) and nothing
\* else is in flight, no resource stays held in writes_held or reads_held.
C12_PanicLeaksNoBorrow ==
    (PanicEnded /\ NothingInFlight) =>
        /\ writes_held = {}
        /\ \A r \in ResourceIds : reads_held[r] = 0

RECURSIVE SharersUpTo(_, _)
\* the entries for resource r on the read lists of the tasks among stages
\* 1..n that acquired their resources and were not released yet
SharersUpTo(r, n) ==
    IF n = 0 THEN 0
    ELSE SharersUpTo(r, n - 1)
           + (spawned[n] + Occurrences(channel, n)) * Occurrences(stage_reads[n], r)

\* the shared borrows of resource r that are held
Sharers(r) == SharersUpTo(r, Len(stages))

\* C13: the shared-borrow count never overflows: the number of shared
\* borrows held on a resource always fits the 8-bit counter, so that
\* reads_held[r] is that number.
C13_SharedCountNeverOverflows ==
    \A r \in ResourceIds :
        /\ Sharers(r) < U8Mod
        /\ reads_held[r] = Sharers(r)

\* C14: the read list and the write list of every system object built from
\* a handle tuple are disjoint (and are those cached when it was built).
C14_ReadWriteListsDisjoint ==
    \A s \in 1..Len(systems) :
        /\ system_reads[s] = resource_reads(systems[s])
        /\ system_writes[s] = resource_writes(systems[s])
        /\ Range(resource_reads(systems[s])) \cap Range(resource_writes(systems[s])) = {}

\* the plan of n stages of one system each, in registration order
OnePerStage(n) == [i \in 1..n |-> <<i>>]

\* every system of the registration writes the one same resource
AllWriteSame(reg) ==
    \E r \in ResourceIds :
        \A i \in 1..Len(reg) : Range(resource_writes(reg[i])) = {r}

\* C15: N systems that all write the same single resource are planned as N
\* stages of one system each, in registration order.
C15_SameWriteOneStageEach ==
    (phase = "built" /\ AllWriteSame(registered)) =>
        /\ plan = OnePerStage(Len(registered))
        /\ stages = OnePerStage(Len(registered))
        /\ systems = registered

C15_Witness ==
    /\ phase = "built"
    /\ registered = <<"inc", "inc", "inc">>
    /\ stages = <<(<<1>>), (<<2>>), (<<3>>)>>

\* no system of the registration declares a write
NoneWrites(reg) == \A i \in 1..Len(reg) : resource_writes(reg[i]) = <<>>

\* the system has empty read and write sets
NoResources(kind) == resource_reads(kind) = <<>> /\ resource_writes(kind) = <<>>

\* C16: N >= 1 systems none of which declares a write are planned as one
\* stage holding all N; and a system with empty read and write sets is put
\* in the first stage, whatever was registered before it.
C16_NoWriteOneStage ==
    phase = "built" =>
        /\ (registered # <<>> /\ NoneWrites(registered))
              => (plan = <<[i \in 1..Len(registered) |-> i]>> /\ Len(stages) = 1)
        /\ \A i \in 1..Len(registered) :
              NoResources(registered[i]) => StageOf(plan, i) = 1

C16_Witness ==
    /\ phase = "built"
    /\ registered = <<"rd", "rd1", "nop">>
    /\ stages = <<(<<1, 2, 3>>)>>
    /\ system_reads = <<(<<0>>), (<<1>>), (<<>>)>>

\* C17: the eight systems of the chain (each takes the value the previous
\* one stored in R and stores the value the next one takes) are planned as
\* eight stages of one system each.
C17_ChainEightStages ==
    (phase = "built" /\ registered = Chain) =>
        /\ plan = OnePerStage(Len(Chain))
        /\ \A id \in 1..Len(stages) : Len(stages[id]) = 1
        /\ Len(stages) = Len(Chain)

C17_Witness ==
    /\ phase = "built"
    /\ registered = Chain
    /\ Len(stages) = 8
    /\ pc = "idle" /\ executes = 1
    /\ resources[0] = 8

NoOp(kind) == kind \in {"rd", "rd1", "nop", "rw", "wide"}

\* C19: executing a plan whose every system is a no-op changes no resource
\* value, and leaves the ledger after each execute() as it was before it
\* (nothing write-held, every shared count 0).
C19_NoOpPlanChangesNothing ==
    (phase # "building" /\ \A s \in 1..Len(systems) : NoOp(systems[s])) =>
        /\ resources = resources0
        /\ Idle => (writes_held = {} /\ \A r \in ResourceIds : reads_held[r] = 0)

C19_Witness ==
    /\ Idle
    /\ executes = 2
    /\ systems = <<"rd", "rd1", "nop">>
    /\ resources0 = SumStore
    /\ calls = <<2, 2, 2>>

\* the step is one run_task(task): it pops the task for good or waits
RunTaskStep ==
    /\ pc = "drain"
    /\ task_queue # <<>>
    /\ pc' = "waitConflict" \/ task_queue' = Tail(task_queue)

\* no id of reads or writes is write-held and no id of writes is read-held
Free(reads, writes) ==
    /\ \A r \in Range(reads) \cup Range(writes) : r \notin writes_held
    /\ \A r \in Range(writes) : ~(reads_held[r] > 0)

\* C20: try_obtain_resources(reads, writes) of a task returns Ok exactly when
\* no id of reads or writes is in writes_held and no id of writes has
\* reads_held[id] > 0. On Ok each entry of reads has added one to its (8-bit)
\* reads_held counter, writes_held has gained every entry of writes, and the
\* running count has grown by the number of systems of the task; on Err the
\* ledger and the running count are as they were.
C20_TryObtainResources ==
    [][RunTaskStep =>
        LET task == Head(task_queue)
            reads == stage_reads[task]
            writes == stage_writes[task]
        IN  IF Free(reads, writes)
            THEN /\ task_queue' = Tail(task_queue)
                 /\ pc' = "drain"
                 /\ \A r \in ResourceIds :
                       reads_held'[r] = (reads_held[r] + Occurrences(reads, r)) % U8Mod
                 /\ writes_held' = writes_held \cup Range(writes)
                 /\ runnning_systems_count' = runnning_systems_count + Len(stages[task])
            ELSE /\ pc' = "waitConflict"
                 /\ task_queue' = task_queue
                 /\ reads_held' = reads_held
                 /\ writes_held' = writes_held
                 /\ runnning_systems_count' = runnning_systems_count]_vars

C20_Witness ==
    /\ pc = "waitConflict"
    /\ writes_held # {}
    /\ \E r \in ResourceIds : reads_held[r] > 0
    /\ runnning_systems_count >= 2

\* the number of completion messages wait_for_completion has handled
RECURSIVE ProcessedUpTo(_, _)
ProcessedUpTo(pr, n) == IF n = 0 THEN 0 ELSE ProcessedUpTo(pr, n - 1) + pr[n]

\* C21: a run_task whose try_obtain_resources reports a conflict leaves
\* reads_held and writes_held as they were, spawns nothing and has the task
\* back at the front of the queue; the engine then handles exactly one
\* completion message and is back at the loop that pops the same task.
C21_ConflictKeepsLedgerAndRetries ==
    [][/\ (RunTaskStep /\ ~Free(stage_reads[Head(task_queue)],
                                 stage_writes[Head(task_queue)]))
          => /\ reads_held' = reads_held
             /\ writes_held' = writes_held
             /\ spawned' = spawned
             /\ running_systems' = running_systems
             /\ runnning_systems_count' = runnning_systems_count
             /\ task_queue' = task_queue
             /\ pc' = "waitConflict"
       /\ (pc = "waitConflict" /\ pc' # pc)
          => /\ pc' = "drain"
             /\ channel # <<>>
             /\ channel' = Tail(channel)
             /\ ProcessedUpTo(processed', Len(processed'))
                   = ProcessedUpTo(processed, Len(processed)) + 1
             /\ task_queue' = task_queue
             /\ spawned' = spawned
      ]_vars

\* the same task is about to be retried after the one message was handled
C21_Witness ==
    /\ pc = "drain"
    /\ task_queue # <<>>
    /\ executes = 1
    /\ processed[1] = 1
    /\ Head(task_queue) = 2
    /\ stage_reads[2] # <<>> /\ stage_writes[2] # <<>>
    /\ reads_held = [r \in ResourceIds |-> 0] /\ writes_held = {}

\* stage id was spawned in the execute() that is running
SpawnedThisExecute(id) == sent[id] + spawned[id] = executes

\* the tasks of the stages from id on, in plan order
StagesFrom(id) == [k \in 1..(Len(stages) + 1 - id) |-> id + k - 1]

\* C22: execute() starts with the queue holding one Stage(i) per stage in
\* plan order, and the stages are spawned in increasing StageId order: the
\* queue is always the stages from its head on, a spawn is always the spawn
\* of the head, and while the head is blocked by a conflict no task behind
\* it has been spawned in this execute().
C22_StagesSpawnInPlanOrder ==
    /\ [](phase # "building" =>
            /\ task_queue # <<>> => task_queue = StagesFrom(Head(task_queue))
            /\ \A k \in 1..Len(task_queue) : ~SpawnedThisExecute(task_queue[k]))
    /\ [][/\ (pc = "idle" /\ pc' # "idle") => task_queue' = StagesFrom(1)
          /\ \A id \in 1..Len(stages) :
                (phase # "building" /\ phase' = phase /\ Len(spawned') = Len(spawned)
                    /\ spawned'[id] > spawned[id])
                   => (task_queue # <<>> /\ id = Head(task_queue))
         ]_vars

\* the head is blocked and the task behind it could have its resources
C22_Witness ==
    /\ pc = "waitConflict"
    /\ Len(task_queue) >= 2
    /\ Free(stage_reads[task_queue[2]], stage_writes[task_queue[2]])
    /\ ~SpawnedThisExecute(task_queue[2])
    /\ stage_reads[task_queue[2]] # <<>>
    /\ channel = <<>>

\* the step handles one completion message
CompletionStep ==
    /\ pc \in {"waitConflict", "waitJoin"}
    /\ pc' = "drain"

\* C23: handling StageComplete(id) is the inverse of acquiring and
\* dispatching Stage(id). It takes one from reads_held per entry of the
\* stage's read list, removes the stage's writes from writes_held, clears
\* the stage's bits of running_systems and takes the stage's cardinality
\* from the running count; and for every stage that can be acquired,
\* acquiring and dispatching it and then handling its completion gives back
\* the ledger, running_systems and the running count.
C23_CompleteInvertsAcquire ==
    /\ [][CompletionStep =>
            LET id == Head(channel) IN
            /\ \A r \in ResourceIds :
                  reads_held'[r] = (reads_held[r] - Occurrences(stage_reads[id], r)) % U8Mod
            /\ writes_held' = writes_held \ Range(stage_writes[id])
            /\ running_systems' = running_systems \ Range(stages[id])
            /\ runnning_systems_count' = runnning_systems_count - Len(stages[id])
         ]_vars
    /\ [](\A id \in Range(task_queue) :
            LET got == try_obtain_resources(stage_reads[id], stage_writes[id],
                                            reads_held, writes_held)
                rel == release_resources_for_stage(stage_reads[id], stage_writes[id],
                                                   got.reads_held, got.writes_held)
            IN  got.ok =>
                  /\ rel.reads_held = reads_held
                  /\ rel.writes_held = writes_held
                  /\ complete_stage(id, dispatch_task(id, running_systems))
                        = running_systems
                  /\ (runnning_systems_count + dispatched_systems(id))
                        - completed_systems(id) = runnning_systems_count)

\* a stage with reads and writes was acquired, dispatched and completed
C23_Witness ==
    /\ pc = "drain"
    /\ executes = 2
    /\ \E id \in 1..Len(stages) :
          /\ processed[id] = 2
          /\ stage_reads[id] # <<>> /\ stage_writes[id] # <<>>
          /\ Len(stages[id]) >= 2
    /\ runnning_systems_count = 0 /\ running_systems = {}

\* the tasks of stage id that were acquired and whose completion was not
\* handled yet
InFlight(id) == spawned[id] + Occurrences(channel, id)

\* the write lists of the stages in flight
WritesInFlight ==
    UNION {Range(stage_writes[id]) : id \in {i \in 1..Len(stages) : InFlight(i) > 0}}

RECURSIVE SystemsInFlightUpTo(_)
\* the systems of the tasks in flight among stages 1..n
SystemsInFlightUpTo(n) ==
    IF n = 0 THEN 0
    ELSE SystemsInFlightUpTo(n - 1) + InFlight(n) * Len(stages[n])

\* C24: the ledger reflects exactly the tasks acquired and not yet completed
\* and handled: reads_held[r] is the number of entries for r on their read
\* lists, writes_held is the union of their write lists, the running count
\* is the number of their systems (so that no release finds a reads_held
\* entry at 0).
C24_LedgerReflectsInFlight ==
    phase # "building" =>
        /\ \A r \in ResourceIds : reads_held[r] = Sharers(r)
        /\ writes_held = WritesInFlight
        /\ runnning_systems_count = SystemsInFlightUpTo(Len(stages))

\* the stages that have a task in flight
StagesInFlight == {id \in 1..Len(stages) : InFlight(id) > 0}

\* C25: during execute() of a plan made by the planner at most one stage is
\* in flight: a stage is acquired only after the completion of the stage
\* before it was handled.
C25_OneStageInFlight ==
    phase = "built" => Cardinality(StagesInFlight) <= 1

\* what one execute_raw does: the load on the first call only, prepare, then
\* the body and flush once the body returned
StepsOf(first, returned) ==
    (IF first THEN <<"load">> ELSE <<>>) \o <<"prepare">>
        \o (IF returned THEN <<"run", "flush">> ELSE <<>>)

\* C26: over any number of executions a system's handle tuple is loaded from
\* the store at most once, on its first execution, and is in the cache from
\* then on; and every execution does prepare, the body, flush, in that
\* order, once each.
C26_LoadOnceThenPrepareRunFlush ==
    \A s \in 1..Len(systems) :
        /\ loads[s] <= 1
        /\ loads[s] = (IF calls[s] = 0 THEN 0 ELSE 1)
        /\ data[s] = (IF calls[s] = 0 THEN "None" ELSE "Some")
        /\ steps[s] = (IF calls[s] = 0 THEN <<>>
                       ELSE StepsOf(calls[s] = 1, sys_state[s] # "running"))

C26_Witness ==
    /\ Idle
    /\ executes = 2
    /\ Len(systems) >= 2
    /\ \A s \in 1..Len(systems) :
          /\ calls[s] = 2
          /\ loads[s] = 1
          /\ steps[s] = <<"prepare", "run", "flush">>

====
